---------------------------- MODULE Spec2Model ----------------------------
(***************************************************************************)
(* Model of the recommendation engine of recommendation_service.py and of  *)
(* the /recommend handler of api_app.py.                                    *)
(*                                                                         *)
(* A DataFrame is a record [loaded, index, cols, rows]: `rows` is the      *)
(* sequence of its rows in storage order, `cols` the set of its column     *)
(* names and `index` the name of the column load() moved into the index    *)
(* ("" for the default RangeIndex).  The slot value None of self._recs is  *)
(* the record NoTable.                                                     *)
(*                                                                         *)
(* score, listen_count and final_score are floats in the program.  The     *)
(* model only compares them; score and listen_count are drawn from small   *)
(* integers and final_score is kept as an exact fraction.  alpha is        *)
(* counted in tenths (alpha = 3 is 0.3).  For the candidate lists reached  *)
(* here (fewer than 14 candidates, alpha in {0, 0.3, 1}) the exact         *)
(* comparison and the IEEE-754 one agree: alpha = 0 and alpha = 1 are      *)
(* computed without rounding, and for alpha = 0.3 the closest pair of      *)
(* distinct scores is more than 0.001 apart.                               *)
(*                                                                         *)
(* recent_tracks = None and recent_tracks = [] are both written <<>>: the  *)
(* program only tests `not recent_tracks`.                                 *)
(***************************************************************************)
EXTENDS Integers, Sequences, FiniteSets, TLC

VARIABLES recs, stats, last, procs

vars == <<recs, stats, last, procs>>

----------------------------------------------------------------------------
(* Bounds of the model *)

MaxRows == 2
MaxK == 2
MaxRequests == 2
MaxCands == 3
NumProcs == 2

(* Program constants *)

Oversample == 5
DefaultAlpha == 3
AlphaDen == 10

----------------------------------------------------------------------------
(* Names *)

S3_KEYS == {"top_popular", "personal_als", "final_ranked"}

CounterNames ==
  {"request_personal_count", "request_default_count", "request_with_online_count"}

NoTable == [loaded |-> FALSE, index |-> "", cols |-> {}, rows |-> <<>>]

InitStats == [c \in CounterNames |-> 0]

Inc(st, c) == [st EXCEPT ![c] = @ + 1]

----------------------------------------------------------------------------
(* pandas operations the engine uses *)

\* head with the cut one row late.
head_OneMore(s, k) ==
  LET n == IF k >= 0
           THEN (IF k + 1 < Len(s) THEN k + 1 ELSE Len(s))
           ELSE (IF Len(s) + k > 0 THEN Len(s) + k ELSE 0)
  IN  SubSeq(s, 1, n)

\* DataFrame.head(k) and list[:k]: the first k items; for negative k all but
\* the last -k items.
head(s, k) ==
  LET n == IF k >= 0
           THEN (IF k < Len(s) THEN k ELSE Len(s))
           ELSE (IF Len(s) + k > 0 THEN Len(s) + k ELSE 0)
  IN  SubSeq(s, 1, n)

\* Sorting takes the order as a table: before[i][j] says that s[i] has to
\* stand before s[j].

\* A stable sort of s: items neither of which has to stand before the other
\* keep their order in s.  (sort_values on several keys: a lexsort.)
StableSort(s, before) ==
  LET n == Len(s)
      pos(i) == 1 + Cardinality({j \in 1..n :
                       \/ before[j][i]
                       \/ (~before[i][j] /\ j < i)})
  IN  [p \in 1..n |-> s[CHOOSE i \in 1..n : pos(i) = p]]

\* Every outcome of a sort of s that is not stable: each arrangement of s in
\* which no item stands after one it has to stand before.  (sort_values on
\* one key: kind="quicksort", which numpy does not keep stable.)
UnstableSorts(s, before) ==
  LET n == Len(s)
  IN  { [p \in 1..n |-> s[f[p]]] :
          f \in { g \in Permutations(1..n) :
                    \A a, b \in 1..n : a < b => ~before[g[b]][g[a]] } }

TrackColumn(rows) == [i \in 1..Len(rows) |-> rows[i].track_id]

\* df.loc[user_id], a one-row Series turned back into a one-row frame:
\* the rows labelled user_id, in storage order; found = FALSE is KeyError.
\* (The one-row round trip turns an integer track_id into the equal float;
\* the model keeps the number.)
Loc(df, user_id) ==
  IF df.index = "user_id"
  THEN LET m == SelectSeq(df.rows, LAMBDA r : r.user_id = user_id)
       IN  [found |-> m # <<>>, rows |-> m]
  ELSE IF user_id \in 0..(Len(df.rows) - 1)
       THEN [found |-> TRUE, rows |-> <<df.rows[user_id + 1]>>]
       ELSE [found |-> FALSE, rows |-> <<>>]

----------------------------------------------------------------------------
(* Recommendations *)

\* load(): the frame read from S3, user_id moved into the index for the two
\* personal tables.
load(rtype, df) ==
  IF rtype \in {"final_ranked", "personal_als"} /\ "user_id" \in df.cols
  THEN [loaded |-> TRUE, index |-> "user_id",
        cols |-> df.cols \ {"user_id"}, rows |-> df.rows]
  ELSE [loaded |-> TRUE, index |-> "", cols |-> df.cols, rows |-> df.rows]

ScoreRankBefore(a, b) ==
  \/ a.score > b.score
  \/ (a.score = b.score /\ a.rank < b.rank)

\* _order_personal: the possible orders of the rows.
order_personal(cols, rows) ==
  LET I == 1..Len(rows)
  IN  IF {"score", "rank"} \subseteq cols
      THEN {StableSort(rows, [i \in I |-> [j \in I |-> ScoreRankBefore(rows[i], rows[j])]])}
      ELSE IF "score" \in cols
      THEN UnstableSorts(rows, [i \in I |-> [j \in I |-> rows[i].score > rows[j].score]])
      ELSE IF "rank" \in cols
      THEN UnstableSorts(rows, [i \in I |-> [j \in I |-> rows[i].rank < rows[j].rank]])
      ELSE {rows}

\* ListenRankBefore with listen_count ascending.
ListenRankBefore_Ascending(a, b) ==
  \/ a.listen_count < b.listen_count
  \/ (a.listen_count = b.listen_count /\ a.rank < b.rank)

ListenRankBefore(a, b) ==
  \/ a.listen_count > b.listen_count
  \/ (a.listen_count = b.listen_count /\ a.rank < b.rank)

\* _order_top: the possible orders of the rows.
order_top(cols, rows) ==
  LET I == 1..Len(rows)
  IN  IF {"listen_count", "rank"} \subseteq cols
      THEN {StableSort(rows, [i \in I |-> [j \in I |-> ListenRankBefore(rows[i], rows[j])]])}
      ELSE IF "listen_count" \in cols
      THEN UnstableSorts(rows, [i \in I |-> [j \in I |->
                                  rows[i].listen_count > rows[j].listen_count]])
      ELSE IF "rank" \in cols
      THEN UnstableSorts(rows, [i \in I |-> [j \in I |-> rows[i].rank < rows[j].rank]])
      ELSE {rows}

\* One personal tier of get_offline (the body of a try block): the set of
\* track lists it can return, empty when it falls through.  KeyError, from
\* .loc for an absent user or from recs["track_id"] for a missing column,
\* is swallowed by `except KeyError: pass`.
PersonalTier(df, user_id, k) ==
  IF ~df.loaded THEN {}
  ELSE LET hit == Loc(df, user_id)
       IN  IF ~hit.found \/ "track_id" \notin df.cols THEN {}
           ELSE { head(TrackColumn(r), k) : r \in order_personal(df.cols, hit.rows) }

Outcome(status, tracks, st, tier, offline) ==
  [status |-> status, tracks |-> tracks, stats |-> st, tier |-> tier,
   offline |-> offline]

\* get_offline with personal_als consulted before final_ranked.
get_offline_AlsFirst(rc, st, user_id, k) ==
  LET fr == PersonalTier(rc["final_ranked"], user_id, k)
      pa == PersonalTier(rc["personal_als"], user_id, k)
      tp == rc["top_popular"]
  IN  IF pa # {}
      THEN { Outcome("ok", t, Inc(st, "request_personal_count"), "personal_als", t)
               : t \in pa }
      ELSE IF fr # {}
      THEN { Outcome("ok", t, Inc(st, "request_personal_count"), "final_ranked", t)
               : t \in fr }
      ELSE IF tp.loaded
      THEN IF "track_id" \notin tp.cols
           THEN { Outcome("KeyError", <<>>, st, "top_popular", <<>>) }
           ELSE { Outcome("ok", head(TrackColumn(r), k),
                          Inc(st, "request_default_count"), "top_popular",
                          head(TrackColumn(r), k))
                    : r \in order_top(tp.cols, tp.rows) }
      ELSE { Outcome("ok", <<>>, st, "none", <<>>) }

\* get_offline: the set of outcomes of one call.  status "KeyError" is the
\* exception that leaves the call from the top_popular tier.
get_offline(rc, st, user_id, k) ==
  LET fr == PersonalTier(rc["final_ranked"], user_id, k)
      pa == PersonalTier(rc["personal_als"], user_id, k)
      tp == rc["top_popular"]
  IN  IF fr # {}
      THEN { Outcome("ok", t, Inc(st, "request_personal_count"), "final_ranked", t)
               : t \in fr }
      ELSE IF pa # {}
      THEN { Outcome("ok", t, Inc(st, "request_personal_count"), "personal_als", t)
               : t \in pa }
      ELSE IF tp.loaded
      THEN IF "track_id" \notin tp.cols
           THEN { Outcome("KeyError", <<>>, st, "top_popular", <<>>) }
           ELSE { Outcome("ok", head(TrackColumn(r), k),
                          Inc(st, "request_default_count"), "top_popular",
                          head(TrackColumn(r), k))
                    : r \in order_top(tp.cols, tp.rows) }
      ELSE { Outcome("ok", <<>>, st, "none", <<>>) }

\* The candidates frame of get_with_online: track_id, the row label (index)
\* and online_boost; offline_score is 1 / (index + 1).
Candidates(offline, recent_tracks) ==
  [i \in 1..Len(offline) |->
     [track_id |-> offline[i], index |-> i - 1,
      online_boost |-> IF \E j \in 1..Len(recent_tracks) : recent_tracks[j] = offline[i]
                       THEN 1 ELSE 0]]

\* FinalScoreNum with the two weights exchanged:
\* alpha * offline_score + (1 - alpha) * online_boost.
FinalScoreNum_WeightsSwapped(c, alpha) ==
  alpha + (AlphaDen - alpha) * c.online_boost * (c.index + 1)

\* final_score of candidate c is FinalScoreNum / (AlphaDen * (c.index + 1)).
FinalScoreNum(c, alpha) ==
  (AlphaDen - alpha) + alpha * c.online_boost * (c.index + 1)

\* FinalScoreGreater for a sort left ascending.
FinalScoreGreater_Ascending(a, b, alpha) ==
  FinalScoreNum(a, alpha) * (b.index + 1) < FinalScoreNum(b, alpha) * (a.index + 1)

\* final_score(a) > final_score(b)
FinalScoreGreater(a, b, alpha) ==
  FinalScoreNum(a, alpha) * (b.index + 1) > FinalScoreNum(b, alpha) * (a.index + 1)

\* The possible orders of the candidates after
\* sort_values("final_score", ascending=False).
BlendSorts(offline, recent_tracks, alpha) ==
  LET cands == Candidates(offline, recent_tracks)
      I == 1..Len(cands)
  IN  { TrackColumn(c) :
          c \in UnstableSorts(cands, [i \in I |-> [j \in I |->
                                        FinalScoreGreater(cands[i], cands[j], alpha)]]) }

\* get_with_online: the set of outcomes of one call.
get_with_online(rc, st, user_id, k, recent_tracks, alpha) ==
  UNION { IF o.status # "ok" THEN {o}
          ELSE IF o.tracks = <<>> THEN {o}
          ELSE IF recent_tracks = <<>>
          THEN { [o EXCEPT !.tracks = head(o.tracks, k)] }
          ELSE { Outcome("ok", head(c, k),
                         Inc(o.stats, "request_with_online_count"), o.tier, o.tracks)
                   : c \in BlendSorts(o.tracks, recent_tracks, alpha) }
        : o \in get_offline(rc, st, user_id, k * Oversample) }

----------------------------------------------------------------------------
(* Inputs: the frames stored in S3 and the arguments of the calls *)

Frame(cols, rows) == [cols |-> cols, rows |-> rows]

PRow(u, t, s, r) == [user_id |-> u, track_id |-> t, score |-> s, rank |-> r]

TRow(t, r, n) == [track_id |-> t, rank |-> r, listen_count |-> n]

PersonalCols == {"user_id", "track_id", "score", "rank"}

TopCols == {"track_id", "rank", "listen_count"}

\* Users 1 and 2; user 1 holds three rows, out of order, two of them equal
\* on score.
SampleFinal ==
  Frame(PersonalCols, <<PRow(1, 7, 1, 2), PRow(2, 9, 2, 1), PRow(1, 5, 2, 1), PRow(1, 9, 1, 1)>>)

\* A final_ranked frame without the track_id column.
NoTrackFinal ==
  Frame(PersonalCols \ {"track_id"},
        <<[user_id |-> 1, score |-> 2, rank |-> 1], [user_id |-> 1, score |-> 1, rank |-> 2]>>)

\* Users 1 and 3; user 1 holds the same track twice.
SamplePersonal ==
  Frame(PersonalCols, <<PRow(3, 7, 1, 1), PRow(1, 9, 2, 2), PRow(1, 9, 2, 1), PRow(3, 5, 2, 1)>>)

\* A personal_als frame with rank as its only ordering column.
RankOnlyPersonal ==
  Frame(PersonalCols \ {"score"},
        <<[user_id |-> 1, track_id |-> 5, rank |-> 1], [user_id |-> 1, track_id |-> 7, rank |-> 1],
          [user_id |-> 3, track_id |-> 9, rank |-> 1]>>)

\* A personal_als frame without the user_id column: load() leaves its
\* RangeIndex, and .loc[user_id] then picks the row numbered user_id.
UnindexedPersonal ==
  Frame(PersonalCols \ {"user_id"},
        <<[track_id |-> 5, score |-> 1, rank |-> 1], [track_id |-> 7, score |-> 2, rank |-> 1],
          [track_id |-> 9, score |-> 3, rank |-> 1], [track_id |-> 5, score |-> 4, rank |-> 1]>>)

SampleTop ==
  Frame(TopCols, <<TRow(7, 2, 500), TRow(5, 1, 1000), TRow(9, 3, 500), TRow(7, 4, 100)>>)

\* A top_popular frame without the track_id column.
NoTrackTop ==
  Frame(TopCols \ {"track_id"}, <<[rank |-> 1, listen_count |-> 1000]>>)

Frames(rtype) ==
  CASE rtype = "final_ranked" -> {SampleFinal, NoTrackFinal}
    [] rtype = "personal_als" -> {SamplePersonal, RankOnlyPersonal, UnindexedPersonal}
    [] rtype = "top_popular"  -> {SampleTop, NoTrackTop}

UserIds == {1, 3, 4}

Ks == (-1)..MaxK

RecentChoices == {<<>>, <<9>>, <<7, 5>>}

Alphas == {0, DefaultAlpha, AlphaDen}

NoCall ==
  [op |-> "none", user_id |-> 0, k |-> 0, recent_tracks |-> <<>>, alpha |-> 0,
   status |-> "", tracks |-> <<>>, tier |-> "", offline |-> <<>>,
   before |-> InitStats]

Call(op, user_id, k, recent_tracks, alpha, o, before) ==
  [op |-> op, user_id |-> user_id, k |-> k, recent_tracks |-> recent_tracks,
   alpha |-> alpha, status |-> o.status, tracks |-> o.tracks, tier |-> o.tier,
   offline |-> o.offline, before |-> before]

----------------------------------------------------------------------------
(* The engine, one call at a time *)

\* Recommendations.__init__
Init ==
  /\ recs = [t \in S3_KEYS |-> NoTable]
  /\ stats = InitStats
  /\ last = NoCall
  /\ procs = <<>>

\* The counters are unbounded in the program; the model stops after
\* MaxRequests counted resolutions.
MayCall ==
  stats["request_personal_count"] + stats["request_default_count"] < MaxRequests

\* The engine is used by one caller here: an operation starts when the
\* result of the one before has been taken.
Ready == last = NoCall

\* rec.load(rtype)
Load ==
  /\ Ready
  /\ \E rtype \in S3_KEYS : \E df \in Frames(rtype) :
       recs' = [recs EXCEPT ![rtype] = load(rtype, df)]
  /\ UNCHANGED <<stats, last, procs>>

\* rec.get_offline(user_id, k), the arguments drawn from the given sets
GetOfflineCall(users, ks) ==
  /\ Ready
  /\ MayCall
  /\ \E user_id \in users : \E k \in ks :
       \E o \in get_offline(recs, stats, user_id, k) :
         /\ stats' = o.stats
         /\ last' = Call("get_offline", user_id, k, <<>>, 0, o, stats)
  /\ UNCHANGED <<recs, procs>>

\* rec.get_with_online(user_id, k, recent_tracks, alpha)
GetWithOnlineCall(users, ks, recents, alphas) ==
  /\ Ready
  /\ MayCall
  /\ \E user_id \in users : \E k \in ks :
       \E recent_tracks \in recents : \E alpha \in alphas :
         \E o \in get_with_online(recs, stats, user_id, k, recent_tracks, alpha) :
           /\ stats' = o.stats
           /\ last' = Call("get_with_online", user_id, k, recent_tracks, alpha, o, stats)
  /\ UNCHANGED <<recs, procs>>

GetOffline == GetOfflineCall(UserIds, Ks)

GetWithOnline == GetWithOnlineCall(UserIds, Ks, RecentChoices, Alphas)

\* The caller takes the returned list (or the exception).
Return ==
  /\ ~Ready
  /\ last' = NoCall
  /\ UNCHANGED <<recs, stats, procs>>

Next == Load \/ GetOffline \/ GetWithOnline \/ Return

Spec == Init /\ [][Next]_vars

----------------------------------------------------------------------------
(* Tier resolution over enumerated tables: one get_offline call on an      *)
(* engine whose tables were loaded at startup                              *)

RECURSIVE SeqsUpTo(_, _)
SeqsUpTo(S, n) ==
  IF n = 0 THEN {<<>>}
  ELSE LET shorter == SeqsUpTo(S, n - 1)
       IN  shorter \cup { Append(q, x) : q \in { r \in shorter : Len(r) = n - 1 }, x \in S }

\* Every final_ranked frame of at most MaxRows rows over two users, two
\* tracks, two scores and two ranks.
EnumFinal ==
  { Frame(PersonalCols, rows) :
      rows \in SeqsUpTo({ PRow(u, t, sc, r) : u \in {1, 2}, t \in {5, 7},
                                               sc \in {1, 2}, r \in {1, 2} }, MaxRows) }

\* Every top_popular frame of at most MaxRows rows over two tracks, two
\* ranks and two listen counts.
EnumTop ==
  { Frame(TopCols, rows) :
      rows \in SeqsUpTo({ TRow(t, r, n) : t \in {5, 7}, r \in {1, 2}, n \in {1, 2} },
                        MaxRows) }

Slot(rtype, frames) == {NoTable} \cup { load(rtype, df) : df \in frames }

ResolveTables ==
  { [final_ranked |-> fr, personal_als |-> pa, top_popular |-> tp] :
      fr \in Slot("final_ranked", EnumFinal),
      pa \in Slot("personal_als", {SamplePersonal}),
      tp \in Slot("top_popular", {SampleTop}) }
  \cup
  { [final_ranked |-> fr, personal_als |-> pa, top_popular |-> tp] :
      fr \in Slot("final_ranked", {SampleFinal}),
      pa \in Slot("personal_als", {SamplePersonal}),
      tp \in Slot("top_popular", EnumTop) }

\* The state once the startup loads are done.
ResolveInit ==
  /\ recs \in ResolveTables
  /\ stats = InitStats
  /\ last = NoCall
  /\ procs = <<>>

ResolveNext == GetOffline

SpecResolve == ResolveInit /\ [][ResolveNext]_vars

----------------------------------------------------------------------------
(* Statements about tier resolution *)

Min(a, b) == IF a < b THEN a ELSE b

ByScoreThenRank(a, b) ==
  a.score > b.score \/ (a.score = b.score /\ a.rank < b.rank)

ByListenThenRank(a, b) ==
  a.listen_count > b.listen_count \/ (a.listen_count = b.listen_count /\ a.rank < b.rank)

\* tracks is the track_id column of the first k rows of some arrangement of
\* rows in which no row stands after a row it has to stand before.
IsOrderedHead(tracks, rows, k, before) ==
  \E f \in Permutations(1..Len(rows)) :
    /\ \A a, b \in 1..Len(rows) : a < b => ~before[f[b]][f[a]]
    /\ tracks = [i \in 1..Min(k, Len(rows)) |-> rows[f[i]].track_id]

ScoreOrder(rows) ==
  [i \in 1..Len(rows) |-> [j \in 1..Len(rows) |-> ByScoreThenRank(rows[i], rows[j])]]

ListenOrder(rows) ==
  [i \in 1..Len(rows) |-> [j \in 1..Len(rows) |-> ByListenThenRank(rows[i], rows[j])]]

RowsOf(df, user_id) == SelectSeq(df.rows, LAMBDA r : r.user_id = user_id)

\* A loaded table with the documented columns that holds rows of user_id.
HoldsUser(df, user_id) ==
  /\ df.loaded
  /\ df.index = "user_id"
  /\ {"track_id", "score", "rank"} \subseteq df.cols
  /\ RowsOf(df, user_id) # <<>>

\* No row of the table is a row of user_id (or the table is not loaded).
LacksUser(df, user_id) ==
  \/ ~df.loaded
  \/ (df.index = "user_id" /\ RowsOf(df, user_id) = <<>>)

\* C1: a get_offline call with k >= 0 for a user who has rows in final_ranked
\* returns the first k track_ids of those rows ordered by score descending,
\* then rank ascending, whatever personal_als and top_popular hold.
C1_FinalRankedFirst ==
  (/\ last.op = "get_offline"
   /\ last.k >= 0
   /\ HoldsUser(recs["final_ranked"], last.user_id))
  => /\ last.status = "ok"
     /\ last.tier = "final_ranked"
     /\ IsOrderedHead(last.tracks, RowsOf(recs["final_ranked"], last.user_id),
                      last.k, ScoreOrder(RowsOf(recs["final_ranked"], last.user_id)))

\* A call for a user with two final_ranked rows stored out of order, who is
\* also in personal_als, returned both rows.
C1_Witness ==
  /\ last.op = "get_offline"
  /\ last.k = 2
  /\ last.user_id = 1
  /\ HoldsUser(recs["personal_als"], 1)
  /\ recs["top_popular"].loaded
  /\ recs["final_ranked"].rows = <<PRow(1, 5, 1, 1), PRow(1, 7, 2, 1)>>
  /\ last.tracks = <<7, 5>>

TopWellFormed(df) == df.loaded /\ TopCols \subseteq df.cols

UnknownUser(user_id) ==
  /\ LacksUser(recs["final_ranked"], user_id)
  /\ LacksUser(recs["personal_als"], user_id)

\* C2: a get_offline call (k >= 0) for a user absent from final_ranked and
\* personal_als returns the first k track_ids of top_popular ordered by
\* listen_count descending, then rank ascending; with top_popular not loaded
\* it returns the empty sequence, raises nothing and changes no counter; and
\* any other unknown user gets the same result.
C2_UnknownUserGetsTop ==
  (/\ last.op = "get_offline"
   /\ last.k >= 0
   /\ UnknownUser(last.user_id)
   /\ (TopWellFormed(recs["top_popular"]) \/ ~recs["top_popular"].loaded))
  => /\ last.status = "ok"
     /\ recs["top_popular"].loaded
          => /\ last.tier = "top_popular"
             /\ IsOrderedHead(last.tracks, recs["top_popular"].rows, last.k,
                              ListenOrder(recs["top_popular"].rows))
     /\ ~recs["top_popular"].loaded
          => /\ last.tracks = <<>>
             /\ stats = last.before
     /\ \A other \in UserIds :
          UnknownUser(other)
            => \A o \in get_offline(recs, last.before, other, last.k) :
                 o.status = last.status /\ o.tracks = last.tracks

\* Two users are unknown, top_popular holds two rows stored out of order, and
\* the call returned both.
C2_Witness ==
  /\ last.op = "get_offline"
  /\ last.k = 2
  /\ last.user_id = 4
  /\ UnknownUser(3)
  /\ recs["final_ranked"].loaded
  /\ recs["top_popular"].rows = <<TRow(5, 1, 1), TRow(7, 2, 2)>>
  /\ last.tracks = <<7, 5>>

\* With top_popular not loaded the call for an unknown user returned nothing.
C2_WitnessNoTable ==
  /\ last.op = "get_offline"
  /\ last.k = 2
  /\ UnknownUser(last.user_id)
  /\ ~recs["top_popular"].loaded
  /\ last.tracks = <<>>

----------------------------------------------------------------------------
(* Blending over enumerated candidate lists: one get_with_online call for  *)
(* a user whose final_ranked rows are stored in offline order              *)

\* user 42 of scenario C
BlendUsers == {42}

\* The final_ranked frame whose rows for user u are, in order, the tracks of
\* c (scores strictly decreasing down the list).
CandFrame(u, c) ==
  Frame(PersonalCols, [i \in 1..Len(c) |-> PRow(u, c[i], Len(c) - i + 1, i)])

\* scenario C of the specification, and every list of at most MaxCands
\* tracks
ScenarioOffline == <<5, 7, 9, 11, 13>>

CandLists == (SeqsUpTo({5, 7, 9}, MaxCands) \ {<<>>}) \cup {ScenarioOffline}

BlendRecents == {<<>>, <<9>>, <<7, 9>>, <<11>>}

BlendInit ==
  /\ recs \in { [final_ranked |-> load("final_ranked", CandFrame(u, c)),
                 personal_als |-> NoTable, top_popular |-> NoTable]
                 : u \in BlendUsers, c \in CandLists }
  /\ stats = InitStats
  /\ last = NoCall
  /\ procs = <<>>

BlendNext ==
  GetWithOnlineCall(BlendUsers, 1..MaxK, BlendRecents, Alphas)

SpecBlend == BlendInit /\ [][BlendNext]_vars

----------------------------------------------------------------------------
(* Statements about single calls *)

Called == last.op # "none"

Delta(c) == stats[c] - last.before[c]

\* C3: a call with k <= 0 returns an empty sequence (the part of the claim
\* about the result; the claim adds that no table is consulted).
C3_NonPositiveKIsEmpty ==
  (Called /\ last.k <= 0) => last.tracks = <<>>

\* C5: no counter decreases; a call raises at most one of the personal and
\* default counters, by 1; it raises the online counter by 1 exactly when its
\* recent_tracks is not empty; a call with recent_tracks resolved from
\* final_ranked or personal_als raises the personal and the online counter
\* and leaves the default counter.  (Stated for calls with k >= 1.)
C5_CountersPerRequest ==
  (Called /\ last.k >= 1) =>
    /\ \A c \in CounterNames : Delta(c) >= 0
    /\ <<Delta("request_personal_count"), Delta("request_default_count")>>
         \in {<<0, 0>>, <<1, 0>>, <<0, 1>>}
    /\ Delta("request_with_online_count")
         = (IF last.op = "get_with_online" /\ last.recent_tracks # <<>> THEN 1 ELSE 0)
    /\ (/\ last.op = "get_with_online"
        /\ last.recent_tracks # <<>>
        /\ last.tier \in {"final_ranked", "personal_als"})
       => /\ Delta("request_personal_count") = 1
          /\ Delta("request_with_online_count") = 1
          /\ Delta("request_default_count") = 0

\* C7: get_with_online with alpha = 0, k >= 0 and a non-empty recent_tracks
\* returns what get_offline returns for the same user and k.
C7_AlphaZeroIsOffline ==
  (/\ last.op = "get_with_online"
   /\ last.alpha = 0
   /\ last.k >= 0
   /\ last.recent_tracks # <<>>)
  => \E o \in get_offline(recs, last.before, last.user_id, last.k) :
       o.status = last.status /\ o.tracks = last.tracks

\* With alpha = 0 a call whose recent_tracks names the second candidate only
\* returned the offline head.
C7_Witness ==
  /\ last.op = "get_with_online"
  /\ last.alpha = 0
  /\ last.k = 2
  /\ last.user_id = 1
  /\ last.recent_tracks = <<9>>
  /\ last.offline = <<5, 9, 7>>
  /\ last.tracks = <<5, 9>>
  /\ Delta("request_with_online_count") = 1

\* The call looked user_id up in a table that has no track_id column.
ReachedNoTrackId(rtype, user_id) ==
  /\ recs[rtype].loaded
  /\ "track_id" \notin recs[rtype].cols
  /\ Loc(recs[rtype], user_id).found

\* C8: a call that finds its user in a final_ranked table without the
\* track_id column does not return normally.  (Stated for calls with k >= 1.)
C8_NoTrackIdRejected ==
  (Called /\ last.k >= 1 /\ ReachedNoTrackId("final_ranked", last.user_id))
  => last.status # "ok"

\* The rows of the table the call resolved from.
SourceRows ==
  CASE last.tier \in {"final_ranked", "personal_als"}
         -> Len(Loc(recs[last.tier], last.user_id).rows)
    [] last.tier = "top_popular" -> Len(recs["top_popular"].rows)
    [] OTHER -> 0

InOffline(t) == \E i \in 1..Len(last.offline) : last.offline[i] = t

LengthAndOrigin ==
  /\ Len(last.tracks) <= last.k
  /\ SourceRows >= last.k => Len(last.tracks) = last.k
  /\ \A i \in 1..Len(last.tracks) : InOffline(last.tracks[i])

\* C10 as stated, for every integer k: a returned sequence has at most k
\* items, exactly k when the source holds at least k rows, and blending adds
\* no track that is not an offline candidate.
C10_AnyK ==
  (Called /\ last.status = "ok") => LengthAndOrigin

\* C10, for k >= 0.
C10_LengthAtMostK ==
  (Called /\ last.status = "ok" /\ last.k >= 0) => LengthAndOrigin

\* A blended call with k = 2 on a source of three rows returned two tracks,
\* not the first two offline candidates.
C10_Witness ==
  /\ last.op = "get_with_online"
  /\ last.k = 2
  /\ last.alpha = AlphaDen
  /\ last.recent_tracks = <<9>>
  /\ SourceRows = 3
  /\ last.offline = <<5, 9, 7>>
  /\ last.tracks = <<9, 7>>

----------------------------------------------------------------------------
(* Statements about blending *)

OfflineList == TrackColumn(recs["final_ranked"].rows)

\* C6: candidates with equal final_score keep their offline order: the
\* result is the head of the stable sort by final_score descending.
C6_TiesKeepOfflineOrder ==
  (last.op = "get_with_online" /\ last.recent_tracks # <<>>)
  => LET cands == Candidates(OfflineList, last.recent_tracks)
         I == 1..Len(cands)
     IN  last.tracks =
           head(TrackColumn(StableSort(cands, [i \in I |-> [j \in I |->
                              FinalScoreGreater(cands[i], cands[j], last.alpha)]])),
                last.k)

\* C9: with alpha = 0.3 the first offline candidate is first in the result,
\* and scenario C (offline [5, 7, 9, 11, 13], k = 1, recent_tracks [9])
\* returns [5].
C9_TopCandidateStaysFirst ==
  (/\ last.op = "get_with_online"
   /\ last.alpha = DefaultAlpha
   /\ last.k >= 1
   /\ OfflineList # <<>>)
  => /\ last.status = "ok"
     /\ last.tracks # <<>>
     /\ last.tracks[1] = OfflineList[1]
     /\ (/\ OfflineList = ScenarioOffline
         /\ last.k = 1
         /\ last.recent_tracks = <<9>>) => last.tracks = <<5>>

\* scenario C was run.
C9_Witness ==
  /\ last.op = "get_with_online"
  /\ last.alpha = DefaultAlpha
  /\ OfflineList = ScenarioOffline
  /\ last.k = 1
  /\ last.recent_tracks = <<9>>
  /\ last.tracks = <<5>>
  /\ Delta("request_with_online_count") = 1

----------------------------------------------------------------------------
(* Concurrent /recommend requests on one Recommendations object.           *)
(* recommend() is a plain `def` endpoint, which FastAPI runs on a thread   *)
(* pool; self._stats[name] += 1 reads the counter and stores the sum in    *)
(* separate bytecodes, with no lock around them.                           *)

Threads == 1..NumProcs

Idle == [pc |-> "idle", todo |-> <<>>, took |-> <<>>, tmp |-> 0]

\* lifespan(): the three tables loaded before the first request
ConcInit ==
  /\ recs = [final_ranked |-> load("final_ranked", SampleFinal),
             personal_als |-> load("personal_als", SamplePersonal),
             top_popular |-> load("top_popular", SampleTop)]
  /\ stats = InitStats
  /\ last = NoCall
  /\ procs = [p \in Threads |-> Idle]

\* The counters a request increments, in order: the one get_offline
\* increments, then the online counter when get_with_online blends.
CountersOf(user_id, k, recent_tracks) ==
  LET o == CHOOSE x \in get_offline(recs, InitStats, user_id,
                                    IF recent_tracks # <<>> THEN k * Oversample ELSE k) : TRUE
      first == SelectSeq(<<"request_personal_count", "request_default_count">>,
                         LAMBDA c : o.stats[c] = 1)
  IN  IF recent_tracks # <<>> /\ o.tracks # <<>>
      THEN Append(first, "request_with_online_count")
      ELSE first

\* recommend(req) up to its first counter increment: the tables are only
\* read, so the tier is settled in one step.
Recommend(p) ==
  /\ procs[p].pc = "idle"
  /\ \E user_id \in UserIds : \E k \in 0..1 : \E recent_tracks \in {<<>>, <<9>>} :
       LET todo == CountersOf(user_id, k, recent_tracks)
       IN  procs' = [procs EXCEPT ![p] =
                       [pc |-> IF todo = <<>> THEN "done" ELSE "read",
                        todo |-> todo, took |-> todo, tmp |-> 0]]
  /\ UNCHANGED <<recs, stats, last>>

\* self._stats[name] += 1: the read
ReadCounter(p) ==
  /\ procs[p].pc = "read"
  /\ procs' = [procs EXCEPT ![p].pc = "write", ![p].tmp = stats[Head(procs[p].todo)]]
  /\ UNCHANGED <<recs, stats, last>>

\* self._stats[name] += 1: the store
WriteCounter(p) ==
  /\ procs[p].pc = "write"
  /\ stats' = [stats EXCEPT ![Head(procs[p].todo)] = procs[p].tmp + 1]
  /\ procs' = [procs EXCEPT ![p].todo = Tail(procs[p].todo),
                            ![p].pc = IF Tail(procs[p].todo) = <<>> THEN "done" ELSE "read"]
  /\ UNCHANGED <<recs, last>>

ConcNext == \E p \in Threads : Recommend(p) \/ ReadCounter(p) \/ WriteCounter(p)

SpecConc == ConcInit /\ [][ConcNext]_vars

AllDone == \A p \in Threads : procs[p].pc = "done"

Took(c) ==
  Cardinality({ p \in Threads : \E i \in 1..Len(procs[p].took) : procs[p].took[i] = c })

\* C4: once every request has finished, each counter equals the number of
\* requests that took its path.
C4_NoLostIncrement ==
  AllDone => \A c \in CounterNames : stats[c] = Took(c)

=============================================================================
